---- MODULE Spec2Model ----
(***************************************************************************)
(* PDF Facil Desktop: the compression engine (engine/pdf_ops.py) and the   *)
(* JS <-> Python bridge (bridge.py) as a state machine.                    *)
(*                                                                         *)
(* Bytes are modelled by what the program observes of them: a document or  *)
(* a JPEG is a record carrying its length and its provenance.  The         *)
(* external libraries (PyMuPDF, Pillow, img2pdf) are deterministic         *)
(* functions of their inputs; what they answer for a given file is part    *)
(* of the file's description (its size response, which calls fail).        *)
(***************************************************************************)
EXTENDS Integers, Sequences, FiniteSets, TLC

VARIABLES src_files, pages, page_images_cache, call, ret, est_seen

vars == <<src_files, pages, page_images_cache, call, ret, est_seen>>

session == <<src_files, pages, page_images_cache>>

(***************************************************************************)
(* Generic helpers.                                                        *)
(***************************************************************************)
\* Python's None for an optional number: the empty sequence; a present
\* value v is <<v>>.
None == <<>>

Some(v) == <<v>>

Val(o) == o[1]

Max2(a, b) == IF a >= b THEN a ELSE b

Min2(a, b) == IF a <= b THEN a ELSE b

\* Python's a % 360 for any integer a (result in 0..359).
Mod360(a) == a % 360

\* floor(sqrt(x)) for 0 <= x < 1024^2, by bisection of [lo, hi)
RECURSIVE SqrtIn(_, _, _)
SqrtIn(x, lo, hi) ==
    IF hi - lo <= 1 THEN lo
    ELSE LET m == (lo + hi) \div 2
         IN IF m * m <= x THEN SqrtIn(x, m, hi) ELSE SqrtIn(x, lo, m)

ISqrt(x) == SqrtIn(x, 0, 1024)

\* int(base * pct/100): the ratios of the source are given in hundredths.
PctOf(base, pct) == (base * pct) \div 100

(***************************************************************************)
(* The image codec (Pillow) as seen by _jpeg_bytes_with_band.              *)
(*                                                                         *)
(* An image is described by its pixel size (w, h) and by its size          *)
(* response resp:                                                          *)
(*   hdr      bytes of a JPEG that do not depend on the pixel count        *)
(*   lo,mid,hi body bytes at full size for q < t1, t1 <= q < t2, q >= t2   *)
(*   fat, raw body bytes of the 4:4:4 quality-100 encodes (optimized and   *)
(*            not)                                                         *)
(* The body scales with the pixel area of the working image.               *)
(***************************************************************************)
\* area of (w, h) in thousandths of the area of (w0, h0)
AreaRatio(w, h, w0, h0) == (w * h) \div Max2(1, (w0 * h0) \div 1000)

Body(resp, qv) ==
    IF qv < resp.t1 THEN resp.lo
    ELSE IF qv < resp.t2 THEN resp.mid
    ELSE resp.hi

\* len(_enc(qv, subsamp, optimize, progressive)) for the working image
\* (w, h) cut from an image of size (w0, h0).
_enc(resp, w0, h0, w, h, qv, fatten, optimize) ==
    LET body == IF ~fatten THEN Body(resp, qv)
                ELSE IF optimize THEN resp.fat
                ELSE resp.raw
    IN resp.hdr + (body * AreaRatio(w, h, w0, h0)) \div 1000

(***************************************************************************)
(* _jpeg_bytes_with_band (pdf_ops.py 43-123).                              *)
(* The loop state is [q, w, h, out, encs]: current quality, working image  *)
(* size, length of the current JPEG and the log of the encodes performed   *)
(* (quality, working size), in order.                                      *)
(***************************************************************************)
Encode(resp, w0, h0, st, qv, w, h, fatten, optimize) ==
    [q |-> IF fatten THEN st.q ELSE qv, w |-> w, h |-> h,
     out |-> _enc(resp, w0, h0, w, h, qv, fatten, optimize),
     encs |-> Append(st.encs, [q |-> qv, w |-> w, h |-> h])]

\* a ceiling pass that lowers the quality by one per iteration
RECURSIVE CeilingPass_mut(_, _, _, _, _, _)
CeilingPass_mut(resp, w0, h0, st, ceil_len, q_floor) ==
    IF st.out > ceil_len /\ st.q > q_floor
    THEN CeilingPass_mut(resp, w0, h0,
                     Encode(resp, w0, h0, st, st.q - 1, st.w, st.h, FALSE, TRUE),
                     ceil_len, q_floor)
    ELSE st

\* 1) ceiling pass: while len(out) > ceil_len and q > q_floor: q -= 3
RECURSIVE CeilingPass(_, _, _, _, _, _)
CeilingPass(resp, w0, h0, st, ceil_len, q_floor) ==
    IF st.out > ceil_len /\ st.q > q_floor
    THEN CeilingPass(resp, w0, h0,
                     Encode(resp, w0, h0, st, st.q - 3, st.w, st.h, FALSE, TRUE),
                     ceil_len, q_floor)
    ELSE st

MIN_LONG_SIDE == 960

\* scale = max(0.60, min(0.98, sqrt(ceil_len / max(1, len(out))) * 0.98)),
\* in thousandths
DownScale(ceil_len, out_len) ==
    Max2(600, Min2(980, ISqrt((980 * 980 * ceil_len) \div Max2(1, out_len))))

\* 1a) while len(out) > ceil_len and max(w, h) > MIN_LONG_SIDE: resize, encode
RECURSIVE DownscaleLoop(_, _, _, _, _, _)
DownscaleLoop(resp, w0, h0, st, ceil_len, scale) ==
    IF st.out > ceil_len /\ Max2(st.w, st.h) > MIN_LONG_SIDE
    THEN DownscaleLoop(resp, w0, h0,
                       Encode(resp, w0, h0, st, st.q,
                              Max2(1, (st.w * scale) \div 1000),
                              Max2(1, (st.h * scale) \div 1000),
                              FALSE, TRUE),
                       ceil_len, scale)
    ELSE st

DownscaleFallback(resp, w0, h0, st, ceil_len, q_floor) ==
    IF st.out > ceil_len /\ st.q <= q_floor /\ q_floor <= 32
    THEN DownscaleLoop(resp, w0, h0, st, ceil_len, DownScale(ceil_len, st.out))
    ELSE st

\* 2) floor pass: while len(out) < floor_len and q < 95: q += 3
RECURSIVE FloorPass(_, _, _, _, _)
FloorPass(resp, w0, h0, st, floor_len) ==
    IF st.out < floor_len /\ st.q < 95
    THEN FloorPass(resp, w0, h0,
                   Encode(resp, w0, h0, st, st.q + 3, st.w, st.h, FALSE, TRUE),
                   floor_len)
    ELSE st

\* the two last-resort encodes at quality 100, 4:4:4
KeepLarger(s_new, s_old) == [s_new EXCEPT !.out = Max2(s_new.out, s_old.out)]

\* the second last-resort encode, without optimize
FattenRaw(resp, w0, h0, a, floor_len) ==
    IF a.out >= floor_len THEN a
    ELSE KeepLarger(Encode(resp, w0, h0, a, 100, a.w, a.h, TRUE, FALSE), a)

Fatten(resp, w0, h0, st, floor_len) ==
    IF st.out >= floor_len THEN st
    ELSE FattenRaw(resp, w0, h0,
                   KeepLarger(Encode(resp, w0, h0, st, 100, st.w, st.h, TRUE, TRUE), st),
                   floor_len)

\* img = [w, h, ow, oh, resp]: the working image (w, h), cut from an image
\* of size (ow, oh) with size response resp; keep_min, keep_max in hundredths
\* or None.
\* Returns the final loop state extended with reached_floor.
StartQuality(q_start) == Max2(1, Min2(q_start, 95))

FirstEncode(img, q0) ==
    Encode(img.resp, img.ow, img.oh, [q |-> q0, encs |-> <<>>], q0, img.w,
           img.h, FALSE, TRUE)

\* if keep_max is not None: ceiling pass, then the downscale fallback
CeilingStage(resp, w0, h0, s0, keep_max, baseline_len, q_floor) ==
    IF keep_max # None
    THEN DownscaleFallback(resp, w0, h0,
             CeilingPass(resp, w0, h0, s0,
                         PctOf(baseline_len, Val(keep_max)), q_floor),
             PctOf(baseline_len, Val(keep_max)), q_floor)
    ELSE s0

\* if keep_min is not None: floor pass, then the last-resort encodes
FloorStage(resp, w0, h0, s1, keep_min, baseline_len) ==
    IF keep_min # None
    THEN Fatten(resp, w0, h0,
                FloorPass(resp, w0, h0, s1, PctOf(baseline_len, Val(keep_min))),
                PctOf(baseline_len, Val(keep_min)))
    ELSE s1

\* return out, reached_floor
BandResult(s2, keep_min, baseline_len) ==
    [q |-> s2.q, w |-> s2.w, h |-> s2.h, out |-> s2.out, encs |-> s2.encs,
     reached_floor |-> IF keep_min # None
                       THEN s2.out >= PctOf(baseline_len, Val(keep_min))
                       ELSE TRUE]

_jpeg_bytes_with_band(img, q_start, keep_min, keep_max, baseline_len, q_floor) ==
    BandResult(
        FloorStage(img.resp, img.ow, img.oh,
            CeilingStage(img.resp, img.ow, img.oh,
                         FirstEncode(img, StartQuality(q_start)),
                         keep_max, baseline_len, q_floor),
            keep_min, baseline_len),
        keep_min, baseline_len)

(***************************************************************************)
(* Results of library and engine calls.  A call either returns or raises;  *)
(* a returned document is [ok |-> TRUE, src, len, pdf, rot]: where the     *)
(* bytes come from, their length, whether they parse as a PDF, and the     *)
(* /Rotate of their first page.                                            *)
(***************************************************************************)
Raised == [ok |-> FALSE, src |-> "exception", len |-> 0, pdf |-> FALSE, rot |-> 0]

NotRun == [ok |-> FALSE, src |-> "notrun", len |-> 0, pdf |-> FALSE, rot |-> 0]

Doc(src, len, pdf) == [ok |-> TRUE, src |-> src, len |-> len, pdf |-> pdf, rot |-> 0]

(***************************************************************************)
(* engine_config.LEVELS and the per-level rules of the image path.         *)
(***************************************************************************)
LevelNames == {"none", "min", "med", "max"}

LEVELS(level) ==
    CASE level = "min" -> [mode |-> "smart", dpi |-> 200, jpg_q |-> 85]
      [] level = "med" -> [mode |-> "all",   dpi |-> 150, jpg_q |-> 70]
      [] level = "max" -> [mode |-> "all",   dpi |-> 110, jpg_q |-> 50]
      [] OTHER         -> [mode |-> "none",  dpi |-> 0,   jpg_q |-> 0]

\* LEVELS.get(level or "none", LEVELS["none"]); "" is a falsy level
ParamsOf(level) == LEVELS(IF level \in LevelNames THEN level ELSE "none")

\* the per-level rules of image_to_pdf_bytes (pdf_ops.py 462-487)
ImageRules(level) ==
    CASE level = "min" -> [q_start |-> 88, keep_max |-> Some(75),
                           keep_min |-> Some(65), max_side |-> None,
                           q_floor |-> 45]
      [] level = "med" -> [q_start |-> 75, keep_max |-> Some(48),
                           keep_min |-> Some(30), max_side |-> Some(1280),
                           q_floor |-> 30]
      [] level = "max" -> [q_start |-> 65, keep_max |-> Some(30),
                           keep_min |-> None, max_side |-> Some(2000),
                           q_floor |-> 24]

\* the per-level rules of estimate_image_pdf_size (pdf_ops.py 327-354)
EstimateRules(level) ==
    CASE level = "min" -> [q_start |-> 88, keep_max |-> Some(75),
                           keep_min |-> Some(65), max_side |-> None,
                           q_floor |-> 45]
      [] level = "med" -> [q_start |-> 75, keep_max |-> Some(48),
                           keep_min |-> Some(30), max_side |-> Some(1280),
                           q_floor |-> 30]
      [] level = "max" -> [q_start |-> 65, keep_max |-> Some(30),
                           keep_min |-> None, max_side |-> Some(2000),
                           q_floor |-> 24]

(***************************************************************************)
(* A file is described by what the libraries answer for its bytes.  The    *)
(* image side of the description:                                          *)
(*   name         the file's name                                          *)
(*   raw_len      length of the file's bytes                               *)
(*   decodable    Pillow opens and decodes the bytes                       *)
(*   convertible  img2pdf.convert accepts the original bytes               *)
(*   base_len     length of img2pdf.convert(original bytes)                *)
(*   exif_rot     the /Rotate img2pdf gives that page                      *)
(*   w, h, resp   pixel size and size response of the decoded image        *)
(*   wrap_ok      img2pdf.convert accepts the re-encoded JPEG              *)
(*   wrap_ovh     bytes img2pdf adds around a JPEG                         *)
(*   fault        the library call that raises on this file, or "none"     *)
(* The PDF side (openable, pgs) is described further down; bytes that are  *)
(* not an image have decodable = convertible = FALSE, bytes that are not   *)
(* a PDF have openable = FALSE.                                            *)
(***************************************************************************)
\* the baseline of both image functions: try img2pdf.convert, else the raw
\* bytes
PdfOrig(f) ==
    IF f.convertible
    THEN [Doc("baseline", f.base_len, TRUE) EXCEPT !.rot = f.exif_rot]
    ELSE [Doc("raw", f.raw_len, f.openable /\ Len(f.pgs) > 0)
              EXCEPT !.rot = IF f.openable /\ Len(f.pgs) > 0
                             THEN f.pgs[1].rot ELSE 0]

\* Downscale to max_side, when the level has one
Downscaled(f, max_side) ==
    LET long == Max2(f.w, f.h)
    IN IF max_side # None /\ Val(max_side) < long
       THEN [w |-> (f.w * Val(max_side)) \div long,
             h |-> (f.h * Val(max_side)) \div long,
             ow |-> f.w, oh |-> f.h, resp |-> f.resp]
       ELSE [w |-> f.w, h |-> f.h, ow |-> f.w, oh |-> f.h, resp |-> f.resp]

\* the band-encoded JPEG of the (downscaled) image under rules r
BandJpeg(f, r, base_len) ==
    _jpeg_bytes_with_band(Downscaled(f, r.max_side), r.q_start, r.keep_min,
                          r.keep_max, base_len, r.q_floor)

\* pdf_out = img2pdf.convert(jpg_bytes), or the JPEG padded with 1024 bytes
WrapCandidate(f, jpg_len) ==
    IF f.wrap_ok THEN Doc("candidate", jpg_len + f.wrap_ovh, TRUE)
    ELSE Doc("padded", jpg_len + 1024, FALSE)

\* a return statement without the comparison: the candidate whatever its
\* size
GuardRail_mut(pdf_out, pdf_orig) == pdf_out

\* return pdf_out if len(pdf_out) < base_len else pdf_orig
GuardRail(pdf_out, pdf_orig) ==
    IF pdf_out.len < pdf_orig.len THEN pdf_out ELSE pdf_orig

\* image_to_pdf_bytes(file_bytes, level) (pdf_ops.py 445-504)
image_to_pdf_bytes(f, level) ==
    IF level = "" \/ level = "none" THEN PdfOrig(f)
    ELSE IF ~f.decodable THEN Raised
    ELSE IF level \notin {"min", "med", "max"} THEN PdfOrig(f)
    ELSE GuardRail(WrapCandidate(f, BandJpeg(f, ImageRules(level),
                                             PdfOrig(f).len).out),
                   PdfOrig(f))

\* len(pdf_out) in estimate_image_pdf_size
EstimateWrapLen(f, jpg_len) ==
    IF f.wrap_ok THEN jpg_len + f.wrap_ovh ELSE jpg_len + 1024

\* return len(pdf_out) if len(pdf_out) < base_len else base_len
EstimateGuard(pdf_out_len, base_len) ==
    IF pdf_out_len < base_len THEN pdf_out_len ELSE base_len

\* estimate_image_pdf_size(img_bytes, level) (pdf_ops.py 307-369):
\* [ok, n], n the returned size
estimate_image_pdf_size(f, level) ==
    IF ParamsOf(level).mode = "none" THEN [ok |-> TRUE, n |-> PdfOrig(f).len]
    ELSE IF ~f.decodable THEN [ok |-> FALSE, n |-> 0]
    ELSE IF level \notin {"min", "med", "max"}
         THEN [ok |-> TRUE, n |-> PdfOrig(f).len]
    ELSE [ok |-> TRUE,
          n |-> EstimateGuard(
                    EstimateWrapLen(f, BandJpeg(f, EstimateRules(level),
                                                PdfOrig(f).len).out),
                    PdfOrig(f).len)]

(***************************************************************************)
(* The PDF side of a file: openable (fitz.open accepts the bytes) and pgs, *)
(* the sequence of its pages (page index i is pgs[i+1]).  A page is        *)
(*   w, h       its rect, in points                                        *)
(*   text, vec  what get_text / get_drawings answer: "yes", "no", "fail"   *)
(*   copy_len   bytes of the page copied alone into a new document         *)
(*   rast       bytes of its JPEG at each level's (dpi, jpg_q)             *)
(*   ovh        bytes a one-page document adds around a JPEG               *)
(*   wrap_ok    img2pdf.convert accepts the page's JPEG                    *)
(*   rot        the /Rotate the page carries                               *)
(*   fault      the library call that raises on this page, or "none"       *)
(***************************************************************************)
Faults == {"none", "load", "render", "new_page", "insert_image",
           "insert_pdf", "set_rotation"}

MAX_MEGAPIXELS == 80

\* _cap_dpi_for_page(page, dpi) (pdf_ops.py 132-140)
_cap_dpi_for_page(pg, dpi) ==
    LET px     == ((pg.w * dpi) \div 72) * ((pg.h * dpi) \div 72)
        max_px == MAX_MEGAPIXELS * 1000000
    IN IF px <= max_px THEN dpi
       ELSE Max2(72, ISqrt((dpi * dpi * 1000) \div (px \div (max_px \div 1000))))

\* _is_image_only without its two try/except defaults: a failed extraction
\* counts as content being present
_is_image_only_mut(pg) ==
    LET has_text    == (pg.text # "no")
        has_vectors == (pg.vec # "no")
    IN (~has_text) /\ (~has_vectors)

\* _is_image_only(page) (pdf_ops.py 142-164): a failed extraction counts
\* as absent
_is_image_only(pg) ==
    LET has_text    == (pg.text = "yes")
        has_vectors == (pg.vec = "yes")
    IN (~has_text) /\ (~has_vectors)

\* len(pix.tobytes("jpeg", jpg_quality)) of the page rendered at dpi_eff
\* for the level whose nominal resolution is dpi
RasterLen(pg, level, dpi, dpi_eff) ==
    (pg.rast[level] * ((dpi_eff * dpi_eff * 100) \div (dpi * dpi))) \div 100

PageCount(f) == Len(f.pgs)

\* estimate_pdf_page_size(pdf_bytes, page_idx, level) (pdf_ops.py 239-304)
estimate_pdf_page_size(f, page_idx, level) ==
    LET params == ParamsOf(level)
    IN IF ~f.openable THEN [ok |-> FALSE, n |-> 0]
       ELSE IF page_idx < 0 \/ page_idx >= PageCount(f)
            THEN [ok |-> TRUE, n |-> 0]
       ELSE LET pg  == f.pgs[page_idx + 1]
                dpi_eff == _cap_dpi_for_page(pg, params.dpi)
                jpg_b   == RasterLen(pg, level, params.dpi, dpi_eff)
                raster  == IF pg.fault = "render" THEN [ok |-> FALSE, n |-> 0]
                           ELSE IF pg.wrap_ok
                                THEN [ok |-> TRUE, n |-> jpg_b + pg.ovh]
                                ELSE [ok |-> TRUE, n |-> jpg_b + 1024]
                copy    == IF pg.fault = "insert_pdf"
                           THEN [ok |-> FALSE, n |-> 0]
                           ELSE [ok |-> TRUE, n |-> pg.copy_len]
            IN IF pg.fault = "load" THEN [ok |-> FALSE, n |-> 0]
               ELSE IF params.mode = "none" THEN copy
               ELSE IF params.mode = "all" THEN raster
               ELSE IF _is_image_only(pg) THEN raster
               ELSE copy

(***************************************************************************)
(* merge_pages (pdf_ops.py 554-657).                                       *)
(* An entry of pages_flat is [data, kind, page_idx, level]; a rotation     *)
(* value is [t, v]: t = "int" for a value int() accepts (v its value),     *)
(* "none" for None, "bad" for any other value.                             *)
(* An output page is [kind, len, rot, dpi, name, idx]: how it was built    *)
(* ("image", "copy", "raster", or "blank" for a new page without its       *)
(* image), the bytes it contributes, its /Rotate, the resolution it was    *)
(* rendered at (0 when it was not rendered), and the file and page index   *)
(* it was made from.                                                       *)
(***************************************************************************)
RotInt(v) == [t |-> "int", v |-> v]

RotNone == [t |-> "none", v |-> 0]

RotBad == [t |-> "bad", v |-> 0]

\* try: angle = int(rotations[pos]) % 360; except: angle = 0
AngleAt(rotations, pos) ==
    IF pos <= Len(rotations) /\ rotations[pos].t = "int"
    THEN Mod360(rotations[pos].v)
    ELSE 0

OutPage(kind, len, rot, dpi, name, idx) ==
    [kind |-> kind, len |-> len, rot |-> rot, dpi |-> dpi, name |-> name,
     idx |-> idx]

\* what one iteration leaves in dst, and whether it ended in an except
Dropped == [out |-> <<>>, raised |-> TRUE]

\* ...; if angle: dst[-1].set_rotation(angle)
Rotated(pg_out, angle, fault) ==
    IF angle = 0 THEN [out |-> <<pg_out>>, raised |-> FALSE]
    ELSE IF fault = "set_rotation" THEN [out |-> <<pg_out>>, raised |-> TRUE]
    ELSE [out |-> <<[pg_out EXCEPT !.rot = angle]>>, raised |-> FALSE]

\* dst.insert_pdf(src, from_page=page_idx, to_page=page_idx); rotation
CopyPage(pg, name, idx, angle) ==
    IF pg.fault = "insert_pdf" THEN Dropped
    ELSE Rotated(OutPage("copy", pg.copy_len, pg.rot, 0, name, idx), angle,
                 pg.fault)

\* get_pixmap(dpi=dpi); tobytes; new_page; insert_image; rotation
RasterPage(pg, name, idx, level, dpi, angle) ==
    IF pg.fault \in {"render", "new_page"} THEN Dropped
    ELSE IF pg.fault = "insert_image"
         THEN [out |-> <<OutPage("blank", pg.ovh, 0, 0, name, idx)>>,
               raised |-> TRUE]
    ELSE Rotated(OutPage("raster", RasterLen(pg, level, dpi, dpi) + pg.ovh, 0,
                         dpi, name, idx),
                 angle, pg.fault)

\* the branch kind == "image" (pdf_ops.py 579-593)
OnePdf(first, fallback) == IF first.ok THEN first ELSE fallback

\* tmp = fitz.open("pdf", one_pdf); dst.insert_pdf(tmp, 0, 0); rotation
AppendImage(f, one_pdf, angle) ==
    IF ~one_pdf.pdf \/ f.fault = "insert_pdf" THEN Dropped
    ELSE Rotated(OutPage("image", one_pdf.len, one_pdf.rot, 0, f.name, 0),
                 angle, f.fault)

MergeImage(f, level, angle) ==
    AppendImage(f, OnePdf(image_to_pdf_bytes(f, level),
                          image_to_pdf_bytes(f, "none")), angle)

\* the branch kind == "pdf" (pdf_ops.py 595-653)
MergePage(pg, name, page_idx, level, params, angle) ==
    IF pg.fault = "load" THEN Dropped
    ELSE IF level = "" \/ level = "none" THEN CopyPage(pg, name, page_idx, angle)
    ELSE IF params.mode = "smart"
         THEN IF _is_image_only(pg)
              THEN RasterPage(pg, name, page_idx, level, params.dpi, angle)
              ELSE CopyPage(pg, name, page_idx, angle)
    ELSE IF params.mode = "all"
         THEN RasterPage(pg, name, page_idx, level, params.dpi, angle)
    ELSE CopyPage(pg, name, page_idx, angle)

\* pg = src.load_page(page_idx) and the rest of the branch
MergePdfAt(f, page_idx, level, angle) ==
    IF page_idx >= PageCount(f) THEN Dropped
    ELSE MergePage(f.pgs[page_idx + 1], f.name, page_idx, level,
                   ParamsOf(level), angle)

\* the branch treating an out-of-range index as estimate_pdf_page_size does:
\* nothing is emitted for it
MergePdf_mut(f, page_idx0, level, angle) ==
    IF ~f.openable THEN Dropped
    ELSE IF page_idx0 < 0 \/ page_idx0 >= PageCount(f) THEN Dropped
    ELSE MergePdfAt(f, page_idx0, level, angle)

\* page_idx = max(0, min(page_idx, src.page_count - 1))
MergePdf(f, page_idx0, level, angle) ==
    IF ~f.openable THEN Dropped
    ELSE MergePdfAt(f, Max2(0, Min2(page_idx0, PageCount(f) - 1)), level, angle)

MergeEntry(e, angle) ==
    IF e.kind = "image" THEN MergeImage(e.data, e.level, angle)
    ELSE MergePdf(e.data, e.page_idx, e.level, angle)

\* rotations = rotation_seq or [0] * len(pages_flat)
RotationsOf(pages_flat, rotation_seq) ==
    IF rotation_seq = <<>> THEN [i \in 1..Len(pages_flat) |-> RotInt(0)]
    ELSE rotation_seq

\* the loop over pages_flat: per position, what it left in dst and whether
\* it raised
MergeLog(pages_flat, rotation_seq) ==
    [pos \in 1..Len(pages_flat) |->
        MergeEntry(pages_flat[pos],
                   AngleAt(RotationsOf(pages_flat, rotation_seq), pos))]

RECURSIVE Flatten(_)
Flatten(log) ==
    IF log = <<>> THEN <<>>
    ELSE log[1].out \o Flatten(Tail(log))

\* merge_pages(pages_flat, rotation_seq): [ok, dst, log].  dst.write raises
\* on a document without pages.
MergeResult(log, dst) == [ok |-> dst # <<>>, dst |-> dst, log |-> log]

merge_pages(pages_flat, rotation_seq) ==
    MergeResult(MergeLog(pages_flat, rotation_seq),
                Flatten(MergeLog(pages_flat, rotation_seq)))

RECURSIVE SumLen(_)
SumLen(ps) == IF ps = <<>> THEN 0 ELSE ps[1].len + SumLen(Tail(ps))

\* compress_pdf(pdf_bytes, level) (pdf_ops.py 376-442): [src, len], src
\* telling whether the input bytes or the rebuilt document is returned.
\* Any exception inside a mode's try returns the input bytes.
compress_pdf(f, level) ==
    LET orig   == [src |-> "orig", len |-> f.raw_len]
        params == ParamsOf(level)
        n      == PageCount(f)
        \* mode "all": every page rendered, img2pdf.convert(jpg_pages)
        all_fails == \/ ~f.openable \/ n = 0
                     \/ \E i \in 1..n : \/ f.pgs[i].fault \in {"load", "render"}
                                        \/ ~f.pgs[i].wrap_ok
        all_pages == [i \in 1..n |->
                        OutPage("raster",
                                RasterLen(f.pgs[i], level, params.dpi, params.dpi)
                                    + f.pgs[i].ovh, 0, params.dpi, f.name, i - 1)]
        \* mode "smart": image-only pages rendered, the others copied
        smart_log == [i \in 1..n |->
                        IF f.pgs[i].fault = "load" THEN Dropped
                        ELSE IF _is_image_only(f.pgs[i])
                             THEN RasterPage(f.pgs[i], f.name, i - 1, level,
                                             params.dpi, 0)
                             ELSE CopyPage(f.pgs[i], f.name, i - 1, 0)]
        smart_fails == \/ ~f.openable \/ n = 0
                       \/ \E i \in 1..n : smart_log[i].raised
        guard(out_len) == IF out_len < f.raw_len
                          THEN [src |-> "compressed", len |-> out_len]
                          ELSE orig
    IN IF level = "" \/ level = "none" THEN orig
       ELSE IF params.mode = "all"
            THEN IF all_fails THEN orig ELSE guard(SumLen(all_pages))
       ELSE IF params.mode = "smart"
            THEN IF smart_fails THEN orig ELSE guard(SumLen(Flatten(smart_log)))
       ELSE orig

\* the elements of a finite set of integers in increasing order
RECURSIVE Sorted(_)
Sorted(S) ==
    IF S = {} THEN <<>>
    ELSE LET m == CHOOSE x \in S : \A y \in S : x <= y
         IN <<m>> \o Sorted(S \ {m})

\* split_pdf(pdf_bytes, keep_pages_0based, rotation_map) (pdf_ops.py
\* 662-693): keep_pages a sequence of indices, rotation_map a function from
\* some indices to angles.  A failing set_rotation is swallowed; every
\* other failure propagates.
split_pdf(f, keep_pages, rotation_map) ==
    LET idxs == Sorted({keep_pages[k] : k \in 1..Len(keep_pages)})
        kept == SelectSeq(idxs, LAMBDA i : i >= 0 /\ i < PageCount(f))
        one(i) == LET pg == f.pgs[i + 1]
                      p0 == OutPage("copy", pg.copy_len, pg.rot, 0, f.name, i)
                  IN IF i \in DOMAIN rotation_map /\ pg.fault # "set_rotation"
                     THEN [p0 EXCEPT !.rot = Mod360(rotation_map[i])]
                     ELSE p0
    IN IF \/ ~f.openable
          \/ \E k \in 1..Len(kept) : f.pgs[kept[k] + 1].fault = "insert_pdf"
          \/ kept = <<>>
       THEN [ok |-> FALSE, dst |-> <<>>]
       ELSE [ok |-> TRUE, dst |-> [k \in 1..Len(kept) |-> one(kept[k])]]

(***************************************************************************)
(* The inputs the engine is exercised on.                                  *)
(***************************************************************************)
\* an image that stays large at low quality and grows steeply at quality
\* 100 without chroma subsampling
SteepResp ==
    [hdr |-> 40, lo |-> 2600, mid |-> 3200, hi |-> 4200, t1 |-> 50, t2 |-> 86,
     fat |-> 7400, raw |-> 8000]

\* size responses, monotone in quality: lo <= mid <= hi
Resps ==
    [hdr : {40}, lo : {300, 600}, mid : {600, 690}, hi : {770, 1400},
     t1 : {50, 86}, t2 : {86, 96}, fat : {560, 1600}, raw : {640, 2000}]
    \cup {SteepResp}

NoResp == [hdr |-> 0, lo |-> 0, mid |-> 0, hi |-> 0, t1 |-> 0, t2 |-> 0,
           fat |-> 0, raw |-> 0]

ImageDims == {<<800, 600>>, <<1200, 1000>>, <<3000, 2000>>}

ImageFile(decodable, convertible, base_len, exif_rot, dim, resp, wrap_ok, fault) ==
    [name |-> "image", raw_len |-> 900, decodable |-> decodable, convertible |-> convertible,
     base_len |-> base_len, exif_rot |-> exif_rot, w |-> dim[1], h |-> dim[2],
     resp |-> resp, wrap_ok |-> wrap_ok, wrap_ovh |-> 30, fault |-> fault,
     openable |-> FALSE, pgs |-> <<>>]

PdfFile(openable, pgs, raw_len) ==
    [name |-> "pdf", raw_len |-> raw_len, decodable |-> FALSE, convertible |-> FALSE,
     base_len |-> 0, exif_rot |-> 0, w |-> 0, h |-> 0, resp |-> NoResp,
     wrap_ok |-> FALSE, wrap_ovh |-> 0, fault |-> "none",
     openable |-> openable, pgs |-> pgs]

Page(dim, text, vec, copy_len, rot, wrap_ok, fault) ==
    [w |-> dim[1], h |-> dim[2], text |-> text, vec |-> vec,
     copy_len |-> copy_len, rast |-> [min |-> 4000, med |-> 2000, max |-> 900],
     ovh |-> 150, wrap_ok |-> wrap_ok, rot |-> rot, fault |-> fault]

A4 == <<595, 842>>

Poster == <<14400, 14400>>

\* the images the image path is exercised on
EngineImages ==
    {ImageFile(d, c, b, 0, dim, r, wo, "none") :
        d \in BOOLEAN, c \in BOOLEAN, b \in {1000, 2900}, dim \in ImageDims,
        r \in Resps, wo \in BOOLEAN}

EngineLevels == {"", "none", "min", "med", "max", "bogus"}

\* the direct calls of _jpeg_bytes_with_band: the three rule sets of the
\* image path and the function's default q_floor with out-of-range q_start
BandRules ==
    {ImageRules(l) : l \in {"min", "med", "max"}}
    \cup {[q_start |-> qs, keep_max |-> kx, keep_min |-> kn, max_side |-> None,
           q_floor |-> 40] :
             qs \in {0, 120}, kx \in {None, Some(75)}, kn \in {None, Some(65)}}

BandCalls ==
    {[op |-> "band",
      img |-> [w |-> dim[1], h |-> dim[2], ow |-> dim[1], oh |-> dim[2],
               resp |-> r],
      rules |-> ru, baseline_len |-> b] :
        dim \in ImageDims, r \in Resps, ru \in BandRules, b \in {1000, 2000}}

ImageCalls ==
    {[op |-> "image", f |-> f, level |-> l] :
        f \in EngineImages, l \in EngineLevels}

\* the pages PDF files are built from
PagePool ==
    {Page(A4, t, "no", c, r, TRUE, fl) :
        t \in {"yes", "no", "fail"}, c \in {300, 5000}, r \in {0, 90},
        fl \in Faults}
    \cup {Page(A4, "no", "yes", 300, 0, TRUE, "none"),
          Page(A4, "no", "fail", 5000, 0, FALSE, "none"),
          Page(Poster, "no", "no", 5000, 0, TRUE, "none")}

TextPage == Page(A4, "yes", "no", 300, 0, TRUE, "none")

ScanPage == Page(A4, "no", "no", 5000, 90, TRUE, "none")

TwoPages == PdfFile(TRUE, <<TextPage, ScanPage>>, 5400)

Unopenable == PdfFile(FALSE, <<>>, 700)

NoPages == PdfFile(TRUE, <<>>, 400)

Photo ==
    ImageFile(TRUE, TRUE, 2900, 0, <<3000, 2000>>,
              [hdr |-> 40, lo |-> 600, mid |-> 690, hi |-> 1400, t1 |-> 50,
               t2 |-> 86, fat |-> 1600, raw |-> 2000], TRUE, "none")

\* a PNG with an alpha channel: Pillow decodes it, img2pdf refuses it
AlphaPng == [Photo EXCEPT !.convertible = FALSE]

Garbage ==
    ImageFile(FALSE, FALSE, 0, 0, <<0, 0>>, NoResp, FALSE, "none")

EngineFiles ==
    {PdfFile(TRUE, <<p>>, p.copy_len + 100) : p \in PagePool}
    \cup {TwoPages, Unopenable, NoPages, Photo, AlphaPng, Garbage}
    \cup {[Photo EXCEPT !.exif_rot = 90],
          [Photo EXCEPT !.fault = "insert_pdf"],
          [Photo EXCEPT !.fault = "set_rotation"]}

Entry(f, kind, page_idx, level) ==
    [data |-> f, kind |-> kind, page_idx |-> page_idx, level |-> level]

\* the entries of pages_flat: every file as the kind its content has, at
\* page 0, plus out-of-range indices, the remaining levels and mislabelled
\* kinds on a few files
AllEntries ==
    {Entry(f, IF f.openable THEN "pdf" ELSE "image", 0, l) :
        f \in EngineFiles, l \in {"none", "min", "med"}}
    \cup {Entry(TwoPages, "pdf", i, l) :
            i \in {-1, 1, 5}, l \in {"none", "max", "", "bogus"}}
    \cup {Entry(f, "pdf", 0, "max") : f \in {Unopenable, NoPages, Photo}}
    \cup {Entry(f, "image", 0, "max") : f \in {TwoPages, Photo, Garbage}}

FewEntries ==
    {Entry(TwoPages, "pdf", 0, "none"), Entry(TwoPages, "pdf", 1, "min"),
     Entry(Photo, "image", 0, "max"), Entry(Unopenable, "pdf", 0, "med")}

RotValues == {RotInt(v) : v \in {-90, 0, 90, 360, 450}} \cup {RotNone, RotBad}

MergeCalls ==
    {[op |-> "merge", pages_flat |-> pf, rotation_seq |-> rs] :
        pf \in {<<e>> : e \in AllEntries} \cup {<<>>},
        rs \in {<<>>} \cup {<<r>> : r \in RotValues}}
    \cup
    {[op |-> "merge", pages_flat |-> pf, rotation_seq |-> rs] :
        pf \in {<<a, b>> : a \in FewEntries, b \in AllEntries}
               \cup {<<b, a>> : a \in FewEntries, b \in AllEntries},
        rs \in {<<>>, <<RotInt(90)>>}
               \cup {<<r, RotInt(0)>> : r \in RotValues}
               \cup {<<RotInt(90), r>> : r \in RotValues}}

CompressCalls ==
    {[op |-> "compress", f |-> f, level |-> l] :
        f \in EngineFiles, l \in EngineLevels}

SplitCalls ==
    {[op |-> "split", f |-> f, keep_pages |-> kp, rotation_map |-> rm] :
        f \in {TwoPages, Unopenable, NoPages}
              \cup {PdfFile(TRUE, <<p>>, 400) :
                      p \in {q \in PagePool : q.fault \in {"insert_pdf", "set_rotation"}}},
        kp \in {<<>>, <<0>>, <<1, 0>>, <<1, 1, 7>>, <<-1>>},
        rm \in {<<>>} \cup {(0 :> a) : a \in {-90, 0, 450}}
               \cup {(0 :> 90) @@ (1 :> 0)}}

PageEstCalls ==
    {[op |-> "page_est", f |-> f, page_idx |-> i, level |-> l] :
        f \in EngineFiles, i \in {-1, 0, 1, 5}, l \in EngineLevels}

(***************************************************************************)
(* SpecImage and SpecMerge: the engine's functions applied to inputs drawn *)
(* at Init.                                                                *)
(***************************************************************************)
NoSession ==
    /\ src_files = <<>>
    /\ pages = <<>>
    /\ page_images_cache = {}
    /\ est_seen = <<>>

NoResult == [band |-> <<>>, doc |-> NotRun, est |-> <<>>, out |-> <<>>]

InitImage ==
    /\ NoSession
    /\ call \in BandCalls \cup ImageCalls
    /\ ret = NoResult

InitMerge ==
    /\ NoSession
    /\ call \in MergeCalls \cup CompressCalls \cup SplitCalls \cup PageEstCalls
    /\ ret = NoResult

\* _jpeg_bytes_with_band applied to the drawn arguments
BandCall ==
    /\ call.op = "band" /\ ret.band = <<>>
    /\ ret' = [ret EXCEPT !.band =
                 <<_jpeg_bytes_with_band(call.img, call.rules.q_start,
                       call.rules.keep_min, call.rules.keep_max,
                       call.baseline_len, call.rules.q_floor)>>]
    /\ UNCHANGED <<session, call, est_seen>>

ImageToPdfCall ==
    /\ call.op = "image" /\ ret.doc = NotRun
    /\ ret' = [ret EXCEPT !.doc = image_to_pdf_bytes(call.f, call.level)]
    /\ UNCHANGED <<session, call, est_seen>>

EstimateImageCall ==
    /\ call.op = "image" /\ ret.est = <<>>
    /\ ret' = [ret EXCEPT !.est = <<estimate_image_pdf_size(call.f, call.level)>>]
    /\ UNCHANGED <<session, call, est_seen>>

MergeCall ==
    /\ call.op = "merge" /\ ret.out = <<>>
    /\ ret' = [ret EXCEPT !.out = <<merge_pages(call.pages_flat, call.rotation_seq)>>]
    /\ UNCHANGED <<session, call, est_seen>>

CompressCall ==
    /\ call.op = "compress" /\ ret.out = <<>>
    /\ ret' = [ret EXCEPT !.out = <<compress_pdf(call.f, call.level)>>]
    /\ UNCHANGED <<session, call, est_seen>>

SplitCall ==
    /\ call.op = "split" /\ ret.out = <<>>
    /\ ret' = [ret EXCEPT !.out = <<split_pdf(call.f, call.keep_pages, call.rotation_map)>>]
    /\ UNCHANGED <<session, call, est_seen>>

PageEstCall ==
    /\ call.op = "page_est" /\ ret.est = <<>>
    /\ ret' = [ret EXCEPT !.est = <<estimate_pdf_page_size(call.f, call.page_idx, call.level)>>]
    /\ UNCHANGED <<session, call, est_seen>>

NextImage ==
    \/ BandCall
    \/ ImageToPdfCall
    \/ EstimateImageCall

NextMerge ==
    \/ MergeCall
    \/ CompressCall
    \/ SplitCall
    \/ PageEstCall

SpecImage == InitImage /\ [][NextImage]_vars

SpecMerge == InitMerge /\ [][NextMerge]_vars

(***************************************************************************)
(* bridge.py: class Api.                                                   *)
(* src_files is the sequence of SrcFile [name, pdf_named, data]            *)
(* (pdf_named: the answer of the test on mime and name that every          *)
(* operation repeats), pages the sequence of PageRef [src_id, page_index,  *)
(* is_pdf], page_images_cache the set of cached (src_id, page_index) keys. *)
(* src_id and page_index are 0-based as in the source.                     *)
(*                                                                         *)
(* The body of an operation returns [kind |-> "ok", ...] or                *)
(* [kind |-> "raise"]; the operation's except clause turns the latter      *)
(* into the structured error [kind |-> "error"].                           *)
(***************************************************************************)
SrcFile(u) == [name |-> u.name, pdf_named |-> u.pdf_named, data |-> u.data]

PageRef(src_id, page_index, is_pdf) ==
    [src_id |-> src_id, page_index |-> page_index, is_pdf |-> is_pdf]

\* sf.mime.lower().endswith('/pdf') or sf.name.lower().endswith('.pdf')
IsPdf(sf) == sf.pdf_named

\* self.src_files[src_id], with Python's negative indices: <<sf>> or <<>>
\* when the index is out of range
SrcAt(files, src_id) ==
    LET k == IF src_id < 0 THEN Len(files) + src_id ELSE src_id
    IN IF k >= 0 /\ k < Len(files) THEN <<files[k + 1]>> ELSE <<>>

RaiseResult == [kind |-> "raise"]

\* a handler without its try/except: the exception leaves the handler
Catch_mut(r) == r

\* except Exception as e: traceback.print_exc(); return {'error': str(e)}
Catch(r) == IF r.kind = "raise" THEN [kind |-> "error"] ELSE r

\* ---------- preview ----------
\* the PageRefs one new source contributes before its indexing raises, if
\* it does
IndexSource(src_id, sf) ==
    IF IsPdf(sf)
    THEN IF ~sf.data.openable THEN [refs |-> <<>>, raised |-> TRUE]
         ELSE LET n   == Len(sf.data.pgs)
                  bad == {i \in 1..n : sf.data.pgs[i].fault \in {"load", "render"}}
                  upto == IF bad = {} THEN n
                          ELSE (CHOOSE i \in bad : \A j \in bad : i <= j) - 1
              IN [refs |-> [i \in 1..upto |-> PageRef(src_id, i - 1, TRUE)],
                  raised |-> bad # {}]
    ELSE IF ~sf.data.decodable THEN [refs |-> <<>>, raised |-> TRUE]
         ELSE [refs |-> <<PageRef(src_id, 0, FALSE)>>, raised |-> FALSE]

\* the indexing loop over the sources base_id .. len(src_files)-1, from
\* source k on: the refs appended until the first source that raises
RECURSIVE IndexFrom(_, _)
IndexFrom(files, k) ==
    IF k > Len(files) THEN [refs |-> <<>>, raised |-> FALSE]
    ELSE LET one == IndexSource(k - 1, files[k])
         IN IF one.raised THEN one
            ELSE LET rest == IndexFrom(files, k + 1)
                 IN [refs |-> one.refs \o rest.refs, raised |-> rest.raised]

\* Api.preview rebuilding the page index from the files of this call alone
PreviewRun_mut(files0, pages0, uploads) ==
    LET bad    == {k \in 1..Len(uploads) : ~uploads[k].b64_ok}
        nadd   == IF bad = {} THEN Len(uploads)
                  ELSE (CHOOSE k \in bad : \A j \in bad : k <= j) - 1
        files1 == files0 \o [k \in 1..nadd |-> SrcFile(uploads[k])]
        ix     == IndexFrom(files1, Len(files0) + 1)
    IN IF bad # {}
       THEN [src_files |-> files1, pages |-> pages0, res |-> RaiseResult]
       ELSE [src_files |-> files1, pages |-> ix.refs,
             res |-> IF ix.raised THEN RaiseResult
                     ELSE [kind |-> "ok", items |-> ix.refs]]

\* the body of Api.preview: the session it leaves and its result
PreviewRun(files0, pages0, uploads) ==
    LET bad    == {k \in 1..Len(uploads) : ~uploads[k].b64_ok}
        nadd   == IF bad = {} THEN Len(uploads)
                  ELSE (CHOOSE k \in bad : \A j \in bad : k <= j) - 1
        files1 == files0 \o [k \in 1..nadd |-> SrcFile(uploads[k])]
        ix     == IndexFrom(files1, Len(files0) + 1)
    IN IF bad # {}
       THEN [src_files |-> files1, pages |-> pages0, res |-> RaiseResult]
       ELSE [src_files |-> files1, pages |-> pages0 \o ix.refs,
             res |-> IF ix.raised THEN RaiseResult
                     ELSE [kind |-> "ok", items |-> ix.refs]]

\* ---------- estimate ----------
\* A payload is [missing, order, keep, rotate, level_page, level_global]:
\* missing is the set of absent keys, order a sequence of
\* [src_id, page_index], keep a sequence of booleans, rotate a sequence of
\* rotation values, level_page a sequence of strings.
ValidLevels == {"none", "min", "med", "max"}

\* level_of of Api.estimate (bridge.py 145-147); idx is 0-based
level_of_estimate(lvl_pg, lvl_gl, idx) ==
    IF idx < Len(lvl_pg) /\ lvl_pg[idx + 1] \in ValidLevels
    THEN lvl_pg[idx + 1]
    ELSE IF lvl_gl \in ValidLevels THEN lvl_gl ELSE "none"

\* level_of with the two sources swapped: a valid global level wins over the
\* page's own
level_of_process_mut(lvl_pg, lvl_gl, idx) ==
    IF lvl_gl \in ValidLevels THEN lvl_gl
    ELSE IF idx < Len(lvl_pg) /\ lvl_pg[idx + 1] \in ValidLevels
         THEN lvl_pg[idx + 1]
    ELSE "none"

\* level_of of Api.process (bridge.py 193-195)
level_of_process(lvl_pg, lvl_gl, idx) ==
    IF idx < Len(lvl_pg) /\ lvl_pg[idx + 1] \in ValidLevels
    THEN lvl_pg[idx + 1]
    ELSE IF lvl_gl \in ValidLevels THEN lvl_gl ELSE "none"

\* one iteration of the loop of Api.estimate, i 1-based:
\* [raised, before, after]
StepRaised == [raised |-> TRUE, before |-> 0, after |-> 0]

StepSkipped == [raised |-> FALSE, before |-> 0, after |-> 0]

\* before += ...; after += ...
StepTotals(b, a) ==
    IF ~b.ok \/ ~a.ok THEN StepRaised
    ELSE [raised |-> FALSE, before |-> b.n, after |-> a.n]

\* estimate_pdf_page_size or estimate_image_pdf_size, by is_pdf
EstimateOne(sf, page_index, lev) ==
    IF IsPdf(sf) THEN estimate_pdf_page_size(sf.data, page_index, lev)
    ELSE estimate_image_pdf_size(sf.data, lev)

EstimateSource(sfs, page_index, lev) ==
    IF sfs = <<>> THEN StepRaised
    ELSE StepTotals(EstimateOne(sfs[1], page_index, "none"),
                    EstimateOne(sfs[1], page_index, lev))

EstimateStep(files, p, i) ==
    IF i > Len(p.keep) THEN StepRaised
    ELSE IF ~p.keep[i] THEN StepSkipped
    ELSE EstimateSource(SrcAt(files, p.order[i].src_id), p.order[i].page_index,
                        level_of_estimate(p.level_page, p.level_global, i - 1))

RECURSIVE SumField(_, _, _)
SumField(steps, n, field) ==
    IF n = 0 THEN 0 ELSE steps[n][field] + SumField(steps, n - 1, field)

\* the body of Api.estimate
EstimateTotals(steps) ==
    IF \E i \in 1..Len(steps) : steps[i].raised THEN RaiseResult
    ELSE [kind |-> "ok",
          total_before_bytes |-> SumField(steps, Len(steps), "before"),
          total_after_bytes |-> SumField(steps, Len(steps), "after")]

EstimateRun(files, p) ==
    IF p.missing \cap {"order", "keep"} # {} THEN RaiseResult
    ELSE EstimateTotals([i \in 1..Len(p.order) |-> EstimateStep(files, p, i)])

\* ---------- process ----------
\* int((rotate[i] if i < len(rotate) else 0) or 0), i 0-based: <<n>>, or
\* <<>> when int() raises
RotSeqValue(rotate, i) ==
    IF i >= Len(rotate) THEN <<0>>
    ELSE LET r == rotate[i + 1]
         IN IF r.t = "int" THEN <<r.v>>
            ELSE IF r.t = "none" THEN <<0>>
            ELSE <<>>

\* one iteration of the loop of Api.process, i 1-based: what it appends to
\* pages_flat and rot_seq, or that it raised
ProcessStep(files, p, i) ==
    LET skip == [raised |-> FALSE, flat |-> <<>>, rot |-> <<>>]
        boom == [raised |-> TRUE, flat |-> <<>>, rot |-> <<>>]
    IN IF i > Len(p.keep) THEN boom
       ELSE IF ~p.keep[i] THEN skip
       ELSE LET sfs == SrcAt(files, p.order[i].src_id)
                rv  == RotSeqValue(p.rotate, i - 1)
            IN IF sfs = <<>> \/ rv = <<>> THEN boom
               ELSE LET sf   == sfs[1]
                        kind == IF IsPdf(sf) THEN "pdf" ELSE "image"
                        lev  == level_of_process(p.level_page, p.level_global, i - 1)
                    IN [raised |-> FALSE,
                        flat |-> <<Entry(sf.data, kind,
                                         IF kind = "pdf" THEN p.order[i].page_index ELSE 0,
                                         lev)>>,
                        rot |-> <<RotInt(rv[1])>>]

RECURSIVE ConcatField(_, _, _)
ConcatField(steps, n, field) ==
    IF n = 0 THEN <<>> ELSE ConcatField(steps, n - 1, field) \o steps[n][field]

\* the body of Api.process; dlg is what the save dialog and the write of the
\* file do: "cancel", "saved" or "write_fails".  The result carries the
\* document merge_pages built.
\* the save dialog and the write of the file
ProcessSave(out, dlg) ==
    IF ~out.ok THEN RaiseResult
    ELSE IF dlg = "cancel" THEN [kind |-> "ok", saved |-> FALSE, doc |-> out]
    ELSE IF dlg = "write_fails" THEN RaiseResult
    ELSE [kind |-> "ok", saved |-> TRUE, doc |-> out]

\* out_bytes = merge_pages(pages_flat, rotation_seq=rot_seq)
ProcessMerge(steps, dlg) ==
    IF \E i \in 1..Len(steps) : steps[i].raised THEN RaiseResult
    ELSE ProcessSave(merge_pages(ConcatField(steps, Len(steps), "flat"),
                                 ConcatField(steps, Len(steps), "rot")), dlg)

ProcessRun(files, p, dlg) ==
    IF p.missing \cap {"order", "keep", "rotate"} # {} THEN RaiseResult
    ELSE ProcessMerge([i \in 1..Len(p.order) |-> ProcessStep(files, p, i)], dlg)

(***************************************************************************)
(* The session: what the bridge is exercised on.                           *)
(***************************************************************************)
MaxFiles == 2

MaxOrder == 2

Upload(name, pdf_named, data, b64_ok) ==
    [name |-> name, pdf_named |-> pdf_named,
     data |-> [data EXCEPT !.name = name], b64_ok |-> b64_ok]

\* two scanned pages: inserting the rendered image of the first fails, and
\* rendering the second fails
HeavyScan ==
    PdfFile(TRUE, <<Page(A4, "no", "no", 5000, 0, TRUE, "insert_image"),
                    Page(A4, "no", "no", 5000, 0, TRUE, "render")>>, 10100)

Uploads ==
    {Upload("two.pdf", TRUE, TwoPages, TRUE),
     Upload("photo.jpg", FALSE, Photo, TRUE),
     Upload("scan.pdf", TRUE, HeavyScan, TRUE),
     Upload("note.png", FALSE, Garbage, FALSE)}

UploadLists ==
    {<<>>} \cup {<<u>> : u \in Uploads} \cup {<<u, v>> : u, v \in Uploads}

Ref(s, i) == [src_id |-> s, page_index |-> i]

\* the first page of the first two sources
Refs == {Ref(0, 0), Ref(1, 0)}

SeqsUpTo(S, n) == UNION {[1..k -> S] : k \in 0..n}

Zeros(n) == [i \in 1..n |-> RotInt(0)]

Payload(order, keep, rotate, level_page, level_global) ==
    [missing |-> {}, order |-> order, keep |-> keep, rotate |-> rotate,
     level_page |-> level_page, level_global |-> level_global]

CorePayloads ==
    {Payload(o, [i \in 1..Len(o) |-> TRUE], Zeros(Len(o)), <<>>, "med") :
        o \in SeqsUpTo(Refs, MaxOrder)}

\* second pages and indices out of range
IndexPayloads ==
    {Payload(o, [i \in 1..Len(o) |-> TRUE], Zeros(Len(o)), <<>>, l) :
        o \in {<<Ref(0, 1)>>, <<Ref(0, 5)>>, <<Ref(0, 5), Ref(0, 0)>>,
               <<Ref(0, 0), Ref(0, 1)>>},
        l \in {"none", "min"}}

ThreeRefs == <<Ref(0, 0), Ref(0, 1), Ref(1, 0)>>

ThreePagePayloads ==
    {Payload(ThreeRefs, k, Zeros(3), <<>>, "none") : k \in [1..3 -> BOOLEAN]}

BridgeRotValues == {RotInt(0), RotInt(90), RotInt(450), RotNone, RotBad}

RotPayloads ==
    {Payload(<<Ref(0, 0)>>, <<TRUE>>, rs, <<>>, l) :
        rs \in {<<>>} \cup {<<r>> : r \in BridgeRotValues}, l \in {"none", "med"}}
    \cup
    {Payload(<<Ref(0, 1), Ref(1, 0)>>, <<TRUE, TRUE>>, rs, <<>>, "none") :
        rs \in {<<RotInt(90)>>} \cup {<<r, RotInt(90)>> : r \in BridgeRotValues}
               \cup {<<RotInt(0), r>> : r \in BridgeRotValues}}

LevelPayloads ==
    {Payload(<<Ref(0, 1), Ref(1, 0)>>, <<TRUE, TRUE>>, Zeros(2), lp, lg) :
        lp \in {<<>>, <<"none">>, <<"max", "min">>, <<"bogus", "none">>},
        lg \in {"min", "max", "bogus"}}

MalformedPayloads ==
    {[Payload(<<Ref(0, 0)>>, <<TRUE>>, Zeros(1), <<>>, "none") EXCEPT !.missing = {m}] :
        m \in {"order", "keep", "rotate"}}
    \cup {Payload(<<Ref(0, 0), Ref(0, 1)>>, k, Zeros(2), <<>>, "none") :
            k \in {<<TRUE>>, <<FALSE>>, <<>>}}
    \cup {Payload(<<Ref(s, 0)>>, <<TRUE>>, Zeros(1), <<>>, "none") :
            s \in {-1, MaxFiles}}

EstimatePayloads ==
    CorePayloads \cup IndexPayloads \cup ThreePagePayloads \cup LevelPayloads
        \cup MalformedPayloads

ProcessPayloads == EstimatePayloads \cup RotPayloads

\* the outcomes of the save dialog tried for a payload
DialogsFor(p) ==
    IF p \in ThreePagePayloads THEN {"saved", "cancel", "write_fails"}
    ELSE {"saved"}

(***************************************************************************)
(* Spec: the operations of Api on one session.                             *)
(***************************************************************************)
Init ==
    /\ src_files = <<>>
    /\ pages = <<>>
    /\ page_images_cache = {}
    /\ call = [op |-> "init"]
    /\ ret = [kind |-> "none"]
    /\ est_seen = <<>>

\* Api.preview(files)
PreviewDone(run) ==
    /\ src_files' = run.src_files
    /\ pages' = run.pages
    /\ UNCHANGED page_images_cache
    /\ ret' = Catch(run.res)

PreviewOp(uploads) ==
    /\ call' = [op |-> "preview", uploads |-> uploads]
    /\ PreviewDone(PreviewRun(src_files, pages, uploads))

\* Api.estimate caching what it computed under the first page of the order
EstimateOp_mut(p) ==
    /\ call' = [op |-> "estimate", payload |-> p]
    /\ ret' = Catch(EstimateRun(src_files, p))
    /\ page_images_cache' = page_images_cache \cup {<<0, 0>>}
    /\ UNCHANGED <<src_files, pages>>

\* Api.estimate(payload)
EstimateOp(p) ==
    /\ call' = [op |-> "estimate", payload |-> p]
    /\ ret' = Catch(EstimateRun(src_files, p))
    /\ UNCHANGED session

\* Api.process(payload)
ProcessOp(p, dlg) ==
    /\ call' = [op |-> "process", payload |-> p, dlg |-> dlg]
    /\ ret' = Catch(ProcessRun(src_files, p, dlg))
    /\ UNCHANGED session

\* a session receives at most MaxFiles files, each of them once
Preview ==
    \E uploads \in UploadLists :
        /\ Len(src_files) + Len(uploads) <= MaxFiles
        /\ \A k \in 1..Len(uploads) :
              /\ \A j \in 1..Len(src_files) : src_files[j].name # uploads[k].name
              /\ \A j \in 1..Len(uploads) : j # k => uploads[j] # uploads[k]
        /\ PreviewOp(uploads)
        /\ est_seen' = <<>>

Estimate ==
    \E p \in EstimatePayloads : EstimateOp(p) /\ est_seen' = <<>>

Process ==
    \E p \in ProcessPayloads : \E dlg \in DialogsFor(p) :
        ProcessOp(p, dlg) /\ est_seen' = <<>>

Next ==
    \/ Preview
    \/ Estimate
    \/ Process

Spec == Init /\ [][Next]_vars

(***************************************************************************)
(* SpecEstimate: estimate calls repeated on one session; est_seen keeps    *)
(* one earlier estimate call of the session and its result.                *)
(***************************************************************************)
RepeatPayloads == IndexPayloads \cup MalformedPayloads

EstimateRemember ==
    \E p \in RepeatPayloads :
        /\ EstimateOp(p)
        /\ est_seen' \in {est_seen, <<[payload |-> p, res |-> ret']>>}

NextEstimate ==
    \/ Preview
    \/ EstimateRemember

SpecEstimate == Init /\ [][NextEstimate]_vars

(***************************************************************************)
(* Claims about the image path and the quality-band encoder (SpecImage).   *)
(***************************************************************************)
ImageBothRun == call.op = "image" /\ ret.doc # NotRun /\ ret.est # <<>>

\* C2: for every image and every level of none/min/med/max,
\* image_to_pdf_bytes returns the baseline document itself unless the
\* candidate is strictly smaller, so the returned length never exceeds the
\* baseline length; and estimate_image_pdf_size returns exactly the length
\* of the document image_to_pdf_bytes returns (both raise on the same
\* inputs), the padded fallback included.
C2_ImageGuardRail ==
    (call.op = "image" /\ call.level \in LevelNames) =>
        /\ (ret.doc # NotRun /\ ret.doc.ok) =>
              /\ ret.doc.len <= PdfOrig(call.f).len
              /\ (ret.doc.len = PdfOrig(call.f).len) => (ret.doc = PdfOrig(call.f))
        /\ ImageBothRun =>
              /\ ret.est[1].ok = ret.doc.ok
              /\ ret.doc.ok => ret.est[1].n = ret.doc.len

\* C2 witness: the wrap of the candidate failed, the padded fallback was
\* strictly smaller than the baseline and was returned, and the estimate
\* has been computed for the same image and level.
C2_Witness ==
    /\ ImageBothRun
    /\ call.level \in {"min", "med", "max"}
    /\ ~call.f.wrap_ok
    /\ ret.doc.src = "padded"
    /\ ret.est[1].ok

BandRun == call.op = "band" /\ ret.band # <<>>

\* no encode of the search was at a hard limit: every quality stayed
\* strictly between q_floor and 95 and the image was never resized
NoHardLimit ==
    \A i \in 1..Len(ret.band[1].encs) :
        LET e == ret.band[1].encs[i]
        IN /\ e.q > call.rules.q_floor /\ e.q < 95
           /\ e.w = call.img.w /\ e.h = call.img.h

\* C3: when both keep_min and keep_max are set and the codec's size
\* response is monotone in quality, a search that ends without hitting a
\* hard limit returns a size within
\* [int(baseline*keep_min), int(baseline*keep_max)].
C3_SizeWithinBand ==
    (/\ BandRun
     /\ call.rules.keep_min # None /\ call.rules.keep_max # None
     /\ NoHardLimit) =>
        /\ ret.band[1].out >= PctOf(call.baseline_len, Val(call.rules.keep_min))
        /\ ret.band[1].out <= PctOf(call.baseline_len, Val(call.rules.keep_max))

(***************************************************************************)
(* Claims about merge_pages and compress_pdf (SpecMerge).                  *)
(***************************************************************************)
MergeRun == call.op = "merge" /\ ret.out # <<>>

MergeAngle(pos) ==
    AngleAt(RotationsOf(call.pages_flat, call.rotation_seq), pos)

\* what the entry at pos contributes when it is rendered at level "none"
AtNone(pos) ==
    MergeEntry([call.pages_flat[pos] EXCEPT !.level = "none"], MergeAngle(pos))

\* C1: on every path that renders a page, the bytes a page contributes at
\* level L are no more than the bytes it contributes at level none:
\* merge_pages for each entry it emits, compress_pdf for the document.
C1_GuardRailMonotone ==
    /\ MergeRun =>
         \A pos \in 1..Len(call.pages_flat) :
            LET e == ret.out[1].log[pos]
            IN (~e.raised /\ e.out # <<>> /\ AtNone(pos).out # <<>>) =>
                  e.out[1].len <= AtNone(pos).out[1].len
    /\ (call.op = "compress" /\ ret.out # <<>>) =>
          ret.out[1].len <= compress_pdf(call.f, "none").len

\* C5: an entry that raises at any step leaves no page in the output, every
\* other entry leaves exactly one, and merge_pages does not raise.
C5_FailureIsolation ==
    MergeRun =>
       /\ \A pos \in 1..Len(call.pages_flat) :
            LET e == ret.out[1].log[pos]
            IN IF e.raised THEN e.out = <<>> ELSE Len(e.out) = 1
       /\ (call.pages_flat # <<>>) => ret.out[1].ok

\* C6: every emitted page whose rotation value is an integer r is stored
\* with /Rotate = r mod 360, whatever its kind and whatever rotation its
\* source carried.
C6_RotationAbsolute ==
    MergeRun =>
       \A pos \in 1..Len(call.pages_flat) :
          LET e  == ret.out[1].log[pos]
              rs == RotationsOf(call.pages_flat, call.rotation_seq)
          IN (~e.raised /\ e.out # <<>> /\ pos <= Len(rs) /\ rs[pos].t = "int") =>
                e.out[1].rot = Mod360(rs[pos].v)

(***************************************************************************)
(* Claims about the bridge (Spec, SpecEstimate).                           *)
(***************************************************************************)
ProcessOk == call.op = "process" /\ ret.kind = "ok"

\* the positions of order that are kept
KeptOf(p) == {i \in 1..Len(p.order) : i <= Len(p.keep) /\ p.keep[i]}

NotRaised(e) == ~e.raised

\* C4: the document a process call builds has as many pages as entries
\* with keep = true minus the entries whose processing raised, and its pages
\* are those of the kept entries that did not raise, in the order of order.
C4_PageCountAndOrder ==
    ProcessOk =>
       LET log    == ret.doc.log
           raised == {k \in 1..Len(log) : log[k].raised}
       IN /\ Len(log) = Cardinality(KeptOf(call.payload))
          /\ Len(ret.doc.dst) = Cardinality(KeptOf(call.payload)) - Cardinality(raised)
          /\ ret.doc.dst = Flatten(SelectSeq(log, NotRaised))

\* the payload with every rotation value int() rejects replaced by 0
ZeroBad(p) ==
    [p EXCEPT !.rotate = [i \in 1..Len(p.rotate) |->
                            IF p.rotate[i].t = "bad" THEN RotInt(0)
                            ELSE p.rotate[i]]]

HasUnparsable(p) ==
    /\ "rotate" \notin p.missing
    /\ \E i \in KeptOf(p) :
          \/ i > Len(p.rotate)
          \/ p.rotate[i].t \in {"bad", "none"}

\* C7: a process call in which the rotation value of a kept page is
\* missing or is not an integer returns what the same call returns with
\* that value replaced by 0: it completes whenever that call completes,
\* with the same pages and no rotation applied to the page.
C7_UnparsableRotationIsZero ==
    (call.op = "process" /\ HasUnparsable(call.payload)) =>
        ret = Catch(ProcessRun(src_files, ZeroBad(call.payload), call.dlg))

\* every kept position of the payload names a source of the session, and
\* keep is as long as order
WellFormed(p) ==
    /\ p.missing = {}
    /\ Len(p.keep) >= Len(p.order)
    /\ \A i \in KeptOf(p) :
          p.order[i].src_id >= 0 /\ p.order[i].src_id < Len(src_files)

\* what one kept page adds to the totals when a failed estimate counts 0
PageEstimate(p, i, level) ==
    LET sf == src_files[p.order[i].src_id + 1]
        e  == IF IsPdf(sf)
              THEN estimate_pdf_page_size(sf.data, p.order[i].page_index, level)
              ELSE estimate_image_pdf_size(sf.data, level)
    IN IF e.ok THEN e.n ELSE 0

RECURSIVE SumKept(_, _, _)
SumKept(p, n, after) ==
    IF n = 0 THEN 0
    ELSE SumKept(p, n - 1, after) +
         (IF n \in KeptOf(p)
          THEN PageEstimate(p, n, IF after
                                  THEN level_of_estimate(p.level_page, p.level_global, n - 1)
                                  ELSE "none")
          ELSE 0)

\* C8: an estimate call over kept pages of the session's sources returns
\* the two totals, a page whose estimate fails counting 0 in them; it never
\* returns an error because of one page.
C8_EstimateDegrades ==
    (call.op = "estimate" /\ WellFormed(call.payload)) =>
        /\ ret.kind = "ok"
        /\ ret.total_before_bytes = SumKept(call.payload, Len(call.payload.order), FALSE)
        /\ ret.total_after_bytes = SumKept(call.payload, Len(call.payload.order), TRUE)

\* C9: preview, estimate and process always hand a value back to the host,
\* a normal result or a structured error; no exception leaves them, and a
\* payload without one of the keys the handler reads gets the error.
C9_NoExceptionEscapes ==
    (call.op \in {"preview", "estimate", "process"}) =>
        /\ ret.kind \in {"ok", "error"}
        /\ (call.op = "process" /\ call.payload.missing # {}) => ret.kind = "error"
        /\ (call.op = "estimate" /\ call.payload.missing \cap {"order", "keep"} # {})
              => ret.kind = "error"

\* C9 witness: a process call whose payload has no rotate key was answered
\* with the structured error, on a session that holds a source.
C9_Witness ==
    /\ call.op = "process"
    /\ "rotate" \in call.payload.missing
    /\ ret.kind = "error"
    /\ Len(src_files) > 0

\* C10: an estimate call leaves src_files, pages and page_images_cache as
\* they were, whether it returns totals or an error, and it returns what an
\* earlier estimate call of the session with the same payload returned.
C10_EstimateFrame ==
    [][(call'.op = "estimate") =>
          /\ session' = session
          /\ (est_seen # <<>> /\ est_seen[1].payload = call'.payload)
                => ret' = est_seen[1].res]_vars

\* C10 witness: on a session with pages, an estimate that returned totals
\* is remembered and a later estimate with another payload returned an
\* error.
C10_Witness ==
    /\ call.op = "estimate"
    /\ est_seen # <<>>
    /\ est_seen[1].payload # call.payload
    /\ est_seen[1].res.kind = "ok"
    /\ est_seen[1].res.total_after_bytes > 0
    /\ ret.kind = "error"
    /\ pages # <<>>

(***************************************************************************)
(* Level resolution (Spec).                                                *)
(***************************************************************************)
\* the level the payload asks for at 0-based position idx: the page's own
\* when present and valid, else the global one when valid, else none
EffectiveLevel(p, idx) ==
    CASE idx < Len(p.level_page) /\ p.level_page[idx + 1] \in ValidLevels
            -> p.level_page[idx + 1]
      [] OTHER -> CASE p.level_global \in ValidLevels -> p.level_global
                    [] OTHER -> "none"

\* the payload with every position's level written out per page and no
\* usable global level
Resolved(p) ==
    [p EXCEPT !.level_page = [i \in 1..Len(p.order) |-> EffectiveLevel(p, i - 1)],
              !.level_global = "bogus"]

C12_BaselineIsLossless ==
    (call.op = "image" /\ call.f.decodable) =>
        /\ (ret.doc # NotRun /\ ret.doc.ok) =>
              /\ PdfOrig(call.f).src = "baseline"
              /\ ret.doc.src # "raw"
        /\ (ret.est # <<>> /\ ret.est[1].ok) =>
              PdfOrig(call.f).src = "baseline"

(***************************************************************************)
(* Resolution of rasterized pages (SpecMerge).                             *)
(***************************************************************************)
\* pixels of page pg rendered at d dots per inch
PixelsAt(pg, d) == ((pg.w * d) \div 72) * ((pg.h * d) \div 72)

\* d is the level's resolution when that stays within the pixel limit, and
\* otherwise a lower one, not below 72, that meets the limit unless 72
\* itself does not
DpiWithinCap(pg, nominal, d) ==
    IF PixelsAt(pg, nominal) <= MAX_MEGAPIXELS * 1000000 THEN d = nominal
    ELSE /\ d >= 72 /\ d < nominal
         /\ (PixelsAt(pg, d) <= MAX_MEGAPIXELS * 1000000 \/ d = 72)

\* C13: every page merge_pages rasterizes, and every page the estimator
\* rasterizes, is rendered at an effective resolution that keeps the page
\* within 80,000,000 pixels, reduced from the level's resolution only when
\* needed and never below 72.
C13_DpiCapped ==
    /\ MergeRun =>
          \A pos \in 1..Len(call.pages_flat) :
             LET e == ret.out[1].log[pos]
                 en == call.pages_flat[pos]
             IN (e.out # <<>> /\ e.out[1].kind = "raster") =>
                   DpiWithinCap(en.data.pgs[e.out[1].idx + 1],
                                ParamsOf(en.level).dpi, e.out[1].dpi)
    /\ (/\ call.op = "page_est" /\ ret.est # <<>> /\ ret.est[1].ok
         /\ call.page_idx >= 0 /\ call.page_idx < PageCount(call.f)
         /\ ParamsOf(call.level).mode # "none") =>
            DpiWithinCap(call.f.pgs[call.page_idx + 1], ParamsOf(call.level).dpi,
                         _cap_dpi_for_page(call.f.pgs[call.page_idx + 1],
                                           ParamsOf(call.level).dpi))

(***************************************************************************)
(* The smart mode's rasterize-or-copy decision (SpecMerge).                *)
(***************************************************************************)
\* the page yields no text and no drawings; a failed extraction yields none
RasterOnly(pg) == pg.text # "yes" /\ pg.vec # "yes"

\* bytes of the one-page document the estimator builds from the rendering
\* of pg at the level's resolution, capped
EstimatedRaster(pg, level) ==
    RasterLen(pg, level, ParamsOf(level).dpi,
              _cap_dpi_for_page(pg, ParamsOf(level).dpi))
        + (IF pg.wrap_ok THEN pg.ovh ELSE 1024)

\* what the estimator answers for pg when it decides as the page's content
\* says
SmartEstimate(pg, level) ==
    IF RasterOnly(pg) THEN EstimatedRaster(pg, level) ELSE pg.copy_len

\* C14: at level min, merge_pages rasterizes a page exactly when the page
\* yields no text and no drawings (a failed extraction counting as none)
\* and copies it otherwise; estimate_pdf_page_size measures the rendering
\* for the same pages and the copy for the others, so both decide alike.
C14_SmartDecision ==
    /\ MergeRun =>
          \A pos \in 1..Len(call.pages_flat) :
             LET e  == ret.out[1].log[pos]
                 en == call.pages_flat[pos]
             IN (/\ en.kind = "pdf" /\ en.level = "min"
                 /\ ~e.raised /\ e.out # <<>>) =>
                   LET pg  == en.data.pgs[e.out[1].idx + 1]
                       est == estimate_pdf_page_size(en.data, e.out[1].idx, "min")
                   IN /\ (e.out[1].kind = "raster") <=> RasterOnly(pg)
                      /\ (e.out[1].kind = "copy") <=> ~RasterOnly(pg)
                      /\ est.ok => est.n = SmartEstimate(pg, "min")
    /\ (/\ call.op = "page_est" /\ call.level = "min"
         /\ ret.est # <<>> /\ ret.est[1].ok
         /\ call.page_idx >= 0 /\ call.page_idx < PageCount(call.f)) =>
            ret.est[1].n = SmartEstimate(call.f.pgs[call.page_idx + 1], "min")

\* C14 witness: merge_pages at level min rasterized a page whose text
\* extraction failed and which has no drawings.
C14_Witness ==
    /\ MergeRun
    /\ Len(call.pages_flat) = 1
    /\ call.pages_flat[1].kind = "pdf"
    /\ call.pages_flat[1].level = "min"
    /\ Len(call.pages_flat[1].data.pgs) = 1
    /\ call.pages_flat[1].data.pgs[1].text = "fail"
    /\ ~ret.out[1].log[1].raised
    /\ ret.out[1].dst # <<>>
    /\ ret.out[1].dst[1].kind = "raster"

(***************************************************************************)
(* The session store (Spec).                                               *)
(***************************************************************************)
\* s is the beginning of t
IsPrefix(s, t) == Len(s) <= Len(t) /\ SubSeq(t, 1, Len(s)) = s

\* C15: every call leaves each source file already stored and each PageRef
\* already indexed unchanged and at its position; preview adds entries at
\* the end only, and estimate and process leave src_files and pages as they
\* are.
C15_AppendOnly ==
    [][/\ IsPrefix(src_files, src_files')
       /\ IsPrefix(pages, pages')
       /\ (call'.op \in {"estimate", "process"}) =>
              (src_files' = src_files /\ pages' = pages)]_vars

\* C15 witness: a preview call added one file and its pages behind the file
\* and the pages of an earlier preview call.
C15_Witness ==
    /\ call.op = "preview"
    /\ Len(call.uploads) = 1
    /\ Len(src_files) = 2
    /\ Len(pages) >= 2
    /\ pages[1].src_id = 0
    /\ pages[Len(pages)].src_id = 1

(***************************************************************************)
(* The loops of the quality-band encoder, read from the log of its encodes *)
(* (SpecImage).                                                            *)
(***************************************************************************)
BandEncs == ret.band[1].encs

LongSide(e) == Max2(e.w, e.h)

\* the loop that produced encode i (i >= 2) of the log, as a phase number:
\* 1 ceiling pass, 2 downscale loop, 3 floor pass, 4 last-resort encodes,
\* 0 when the encode is a step of none of them
PhaseOf(i) ==
    LET a == BandEncs[i - 1]
        b == BandEncs[i]
    IN CASE b.q = 100 /\ b.w = a.w /\ b.h = a.h -> 4
         [] b.q = a.q - 3 /\ b.w = a.w /\ b.h = a.h /\ a.q > call.rules.q_floor -> 1
         [] b.q = a.q /\ LongSide(a) > MIN_LONG_SIDE /\ LongSide(b) < LongSide(a)
              /\ b.w <= a.w /\ b.h <= a.h -> 2
         [] b.q = a.q + 3 /\ b.w = a.w /\ b.h = a.h /\ a.q < 95 -> 3
         [] OTHER -> 0

\* the encodes a run can perform at most: the first one, one per step of 3
\* from the start quality down to q_floor, one per pixel of the longer side
\* above 960, one per step of 3 up to 95, and two last-resort encodes
EncodeBudget ==
    LET q0 == StartQuality(call.rules.q_start)
        lo == Min2(q0, call.rules.q_floor - 2)
    IN 1 + (q0 - lo + 2) \div 3
         + Max2(0, Max2(call.img.w, call.img.h) - MIN_LONG_SIDE)
         + (95 - lo + 2) \div 3
         + 2

\* C16: _jpeg_bytes_with_band returns after finitely many encodes: after
\* the first encode, every encode is a step of the ceiling pass (quality
\* lowered by 3 from above q_floor), of the downscale loop (longer side
\* strictly shrunk from above 960 px), of the floor pass (quality raised by
\* 3 from below 95) or one of at most two last-resort encodes, the loops
\* run in this order, and the number of encodes is within the budget these
\* steps allow.
C16_Terminates ==
    BandRun =>
        /\ Len(BandEncs) >= 1
        /\ Len(BandEncs) <= EncodeBudget
        /\ \A i \in 2..Len(BandEncs) :
              /\ PhaseOf(i) # 0
              /\ i > 2 => PhaseOf(i - 1) <= PhaseOf(i)
        /\ Cardinality({i \in 2..Len(BandEncs) : PhaseOf(i) = 4}) <= 2

\* C16 witness: a run that went through the ceiling pass, the downscale
\* loop, the floor pass and a last-resort encode before it returned.
C16_Witness ==
    /\ BandRun
    /\ \E i \in 2..Len(BandEncs) : PhaseOf(i) = 1
    /\ \E i \in 2..Len(BandEncs) : PhaseOf(i) = 2
    /\ \E i \in 2..Len(BandEncs) : PhaseOf(i) = 3
    /\ \E i \in 2..Len(BandEncs) : PhaseOf(i) = 4

\* the rule sets of the image path: start 88/75/65, q_floor 45/30/24
LevelRules == {ImageRules(l) : l \in {"min", "med", "max"}}

\* C17: with the rule sets of the three levels, every encode of the first
\* encode, the ceiling pass, the downscale loop and the floor pass uses a
\* quality between 1 and 95, and only the last-resort encodes use 100.
C17_QualityWithin95 ==
    (BandRun /\ call.rules \in LevelRules) =>
        \A i \in 1..Len(BandEncs) :
            \/ BandEncs[i].q >= 1 /\ BandEncs[i].q <= 95
            \/ i >= 2 /\ PhaseOf(i) = 4

\* int(baseline_len * keep_max) of the call
CeilLen == PctOf(call.baseline_len, Val(call.rules.keep_max))

\* the downscale loop resized the image at least once: keep_max is set,
\* q_floor <= 32, the quality was down at q_floor with the JPEG above the
\* ceiling, and the longer side was above 960 px
DownscaleActed == \E i \in 2..Len(BandEncs) : PhaseOf(i) = 2

\* C18: when the downscale loop acted, the JPEG returned is not longer
\* than int(baseline_len * keep_max), the floor pass and the last-resort
\* encodes included.
C18_CeilingAfterDownscale ==
    (BandRun /\ call.rules.keep_max # None /\ DownscaleActed) =>
        ret.band[1].out <= CeilLen

\* C19: the downscale loop resizes only an image whose longer side is
\* above 960 px, and no resize leaves the longer side below 960 px.
C19_LongSideFloor ==
    BandRun =>
        \A i \in 2..Len(BandEncs) :
            (BandEncs[i].w # BandEncs[i - 1].w \/ BandEncs[i].h # BandEncs[i - 1].h) =>
                /\ LongSide(BandEncs[i - 1]) > MIN_LONG_SIDE
                /\ LongSide(BandEncs[i]) >= MIN_LONG_SIDE

(***************************************************************************)
(* Out-of-range page indices in merge_pages (SpecMerge).                   *)
(***************************************************************************)
\* the valid index nearest to the entry's page_index
NearestIndex(en) == Max2(0, Min2(en.page_idx, PageCount(en.data) - 1))

\* a PDF entry of a source with pages whose page_index is not one of them
OutOfRange(en) ==
    /\ en.kind = "pdf" /\ en.data.openable /\ PageCount(en.data) >= 1
    /\ (en.page_idx < 0 \/ en.page_idx >= PageCount(en.data))

\* C20: a PDF entry of merge_pages whose page_index lies outside
\* [0, page_count - 1] of a source with pages emits the page at the nearest
\* valid index as one normal output page, without raising, and leaves in
\* the output exactly what the entry with the nearest valid index leaves.
C20_IndexClamped ==
    MergeRun =>
        \A pos \in 1..Len(call.pages_flat) :
            LET e  == ret.out[1].log[pos]
                en == call.pages_flat[pos]
            IN OutOfRange(en) =>
                 /\ (en.data.pgs[NearestIndex(en) + 1].fault = "none") =>
                        /\ ~e.raised
                        /\ Len(e.out) = 1
                        /\ e.out[1].idx = NearestIndex(en)
                        /\ e.out[1].kind \in {"copy", "raster"}
                 /\ e = MergeEntry([en EXCEPT !.page_idx = NearestIndex(en)],
                                   MergeAngle(pos))

\* C20 witness: merge_pages was given page_index 5 of a two-page source and
\* the output holds that source's last page.
C20_Witness ==
    /\ MergeRun
    /\ Len(call.pages_flat) = 1
    /\ OutOfRange(call.pages_flat[1])
    /\ call.pages_flat[1].page_idx = 5
    /\ PageCount(call.pages_flat[1].data) = 2
    /\ ret.out[1].ok
    /\ Len(ret.out[1].dst) = 1
    /\ ret.out[1].dst[1].idx = 1

\* C21: a preview call that returns an error leaves src_files and pages as
\* they were before the call, so no file of the failed call stays in the
\* session.
C21_FailedPreviewRollsBack ==
    [][(call'.op = "preview" /\ ret'.kind = "error") =>
          (src_files' = src_files /\ pages' = pages)]_vars

====
